---- MODULE Spec2Model ----
(***************************************************************************)
(* A model of codice-cam's marker pipeline:                                *)
(*   - the pattern decoder of MarkerDetector (decodeMarker,                *)
(*     isValidCodicePattern, decodeBinaryPattern, calculateConfidence),    *)
(*     driven through testDecodeMarker on canonical 120x120 patches;       *)
(*   - MarkerDetector::detectMarkers (both overloads) with processContour  *)
(*     and ImageProcessor::findMarkerContours / filterContour;             *)
(*   - the configuration setters of ImageProcessor and MarkerDetector.     *)
(* Real-valued quantities are kept exact: confidences are in tenths,       *)
(* contrast in tenths, aspect ratios are compared by cross-multiplying,    *)
(* distances are compared by their squares.                                *)
(***************************************************************************)
EXTENDS Integers, Sequences, FiniteSets, TLC

(***************************************************************************)
(* Bounds of the model.                                                    *)
(***************************************************************************)
\* Generated patches have at most this many white data cells.
MaxWhiteData == 1

(***************************************************************************)
(* Program constants.                                                      *)
(***************************************************************************)
PatchSize == 120
CellSize == 20
GridCells == 6
BinaryThreshold == 70
WhiteCutoff == 127
PolarityNear == 20
PolarityFar == 80
InnerOrigin == 20
InnerSize == 60
SampleStep == 15
SampleOffset == 7
BorderMid == 60
BorderTolerancePct == 60
IdLimit == 4096
IdBits == 12
ConfBase == 5
ConfRangeBonus == 3
ConfFixedBonus == 2
ConfCap == 10

(***************************************************************************)
(* Canonical patches.  A patch is a 120x120 8-bit raster laid out as a     *)
(* 6x6 grid of 20-pixel cells: a border ring of one grey level, and the    *)
(* inner 4x4 cells (grid rows/columns 1..4), those in S at level "on" and  *)
(* the others at level "off".                                              *)
(***************************************************************************)
InnerCells == (1..4) \X (1..4)
CornerCells == {<<1, 1>>, <<1, 4>>, <<4, 1>>, <<4, 4>>}

\* The 12 data cells in row-major order: DataCells[i+1] carries bit i.
DataCells ==
  << <<1, 2>>, <<1, 3>>,
     <<2, 1>>, <<2, 2>>, <<2, 3>>, <<2, 4>>,
     <<3, 1>>, <<3, 2>>, <<3, 3>>, <<3, 4>>,
     <<4, 2>>, <<4, 3>> >>

Pow2(n) == 2 ^ n

Bit(k, i) == (k \div Pow2(i)) % 2

PopCount(k) == Cardinality({i \in 0..(IdBits - 1) : Bit(k, i) = 1})

\* The data cells that are white in the pattern of identifier k.
EncodeId(k) == {DataCells[i + 1] : i \in {j \in 0..(IdBits - 1) : Bit(k, j) = 1}}

\* The raster's pixel at row y, column x.
\* A stretch of one outermost line of the patch, by its first and last
\* index; NoStretch holds no pixel.
NoStretch == <<1, 0>>

InStretch(k, stretch) == stretch[1] <= k /\ k <= stretch[2]

\* A ring of one level all round.
NoFlaw == [top |-> NoStretch, bottom |-> NoStretch, left |-> NoStretch,
           right |-> NoStretch]

\* The pixels of the outermost lines that have the level opposite to the
\* ring's.
Flawed(p, y, x) ==
  /\ p.flaw # NoFlaw
  /\ \/ y = 0 /\ InStretch(x, p.flaw.top)
     \/ y = PatchSize - 1 /\ InStretch(x, p.flaw.bottom)
     \/ x = 0 /\ InStretch(y, p.flaw.left)
     \/ x = PatchSize - 1 /\ InStretch(y, p.flaw.right)

PixelAt(p, y, x) ==
  LET r == y \div CellSize
      c == x \div CellSize
  IN  IF r = 0 \/ r = GridCells - 1 \/ c = 0 \/ c = GridCells - 1
        THEN IF Flawed(p, y, x) THEN 255 - p.ring ELSE p.ring
        ELSE IF <<r, c>> \in p.S THEN p.on ELSE p.off

\* The whole patch turned 90 degrees clockwise, n times: the pixel at
\* (y, x) moves to (x, 119 - y), so the cell (r, c) moves to (c, 5 - r).
RotateCell(cell) == <<cell[2], (GridCells - 1) - cell[1]>>

RECURSIVE RotateCellN(_, _)
RotateCellN(cell, n) ==
  IF n = 0 THEN cell ELSE RotateCellN(RotateCell(cell), n - 1)

Reversed(stretch) == <<(PatchSize - 1) - stretch[2], (PatchSize - 1) - stretch[1]>>

\* The top line becomes the right one, the right one the bottom one read
\* backwards, the bottom one the left one, the left one the top one read
\* backwards.
RotateFlaw(f) ==
  [top |-> Reversed(f.left), right |-> f.top, bottom |-> Reversed(f.right),
   left |-> f.bottom]

RECURSIVE RotateFlawN(_, _)
RotateFlawN(f, n) == IF n = 0 THEN f ELSE RotateFlawN(RotateFlaw(f), n - 1)

RotatePatch(p, n) ==
  [p EXCEPT !.S = {RotateCellN(cell, n) : cell \in p.S},
            !.flaw = RotateFlawN(p.flaw, n)]

\* Every pixel v replaced by 255 - v.
InvertPatch(p) ==
  [p EXCEPT !.ring = 255 - p.ring, !.on = 255 - p.on, !.off = 255 - p.off]

\* The synthetic patch for identifier k: the single orientation beacon at
\* the top-left inner cell, the other three inner corners black.
MarkerPatch(k, ringLevel, whiteLevel) ==
  [rows |-> PatchSize, cols |-> PatchSize, ring |-> ringLevel,
   on |-> whiteLevel, off |-> 0, S |-> {<<1, 1>>} \cup EncodeId(k),
   flaw |-> NoFlaw]

(***************************************************************************)
(* MarkerDetector: the pattern decoder.                                    *)
(***************************************************************************)
\* cv::threshold(gray, binary, 70, 255, THRESH_BINARY)
threshold(v) == IF v > BinaryThreshold THEN 255 ELSE 0

\* binary_marker: the thresholded patch, bitwise-inverted when inv is set.
BinaryAt(b, y, x) ==
  LET v == threshold(PixelAt(b.src, y, x))
  IN  IF b.inv THEN 255 - v ELSE v

\* The pixels (y, x) decodeMarker reads of binary_marker before it calls
\* isValidCodicePattern, whatever the size of the patch.
PolarityProbes ==
  {<<PolarityNear, PolarityNear>>, <<PolarityNear, PolarityFar>>,
   <<PolarityFar, PolarityNear>>, <<PolarityFar, PolarityFar>>}

\* The number of white samples among the four polarity probes.
white_corners(p) ==
  LET b0 == [src |-> p, inv |-> FALSE]
  IN  Cardinality({q \in PolarityProbes : BinaryAt(b0, q[1], q[2]) > WhiteCutoff})

\* Threshold, then invert when 0 or 4 of the probes are white.
NormalizePolarity(p) ==
  LET n == white_corners(p)
  IN  [src |-> p, inv |-> n = 0 \/ n = 4]

\* An isValidCodicePattern that rejects at 60% already.
isValidCodicePattern_AtTolerance(b) ==
  /\ b.src.rows = PatchSize /\ b.src.cols = PatchSize
  /\ LET last == PatchSize - 1
         black == (BinaryAt(b, 0, 0) + BinaryAt(b, 0, BorderMid)
                   + BinaryAt(b, BorderMid, 0) + BinaryAt(b, last, last)) \div 4
                  < WhiteCutoff
         off(y, x) == black # (BinaryAt(b, y, x) < WhiteCutoff)
         n == Cardinality({x \in 0..last : off(0, x)})
              + Cardinality({x \in 0..last : off(last, x)})
              + Cardinality({y \in 0..last : off(y, 0)})
              + Cardinality({y \in 0..last : off(y, last)})
     IN  n * 100 < BorderTolerancePct * (4 * PatchSize)

isValidCodicePattern(b) ==
  IF b.src.rows # PatchSize \/ b.src.cols # PatchSize
    THEN FALSE
    ELSE
      LET last == PatchSize - 1
          sum == BinaryAt(b, 0, 0) + BinaryAt(b, 0, BorderMid)
                 + BinaryAt(b, BorderMid, 0) + BinaryAt(b, last, last)
          expect_black_border == (sum \div 4) < WhiteCutoff
          matches(y, x) ==
            IF expect_black_border
              THEN BinaryAt(b, y, x) < WhiteCutoff
              ELSE BinaryAt(b, y, x) >= WhiteCutoff
          inconsistent_pixels ==
              Cardinality({x \in 0..last : ~matches(0, x)})
            + Cardinality({x \in 0..last : ~matches(last, x)})
            + Cardinality({y \in 0..last : ~matches(y, 0)})
            + Cardinality({y \in 0..last : ~matches(y, last)})
      IN  ~(inconsistent_pixels * 100 > BorderTolerancePct * (4 * PatchSize))

\* pattern[row][col]: the sample of inner_region = binary_marker(Rect(20,20,60,60))
\* at (row*15+7, col*15+7).
PatternAt(b, row, col) ==
  BinaryAt(b, InnerOrigin + row * SampleStep + SampleOffset,
              InnerOrigin + col * SampleStep + SampleOffset) > WhiteCutoff

\* The corners of the 4x4 pattern that read white: TL, TR, BL, BR.
PatternCorners == {<<0, 0>>, <<0, 3>>, <<3, 0>>, <<3, 3>>}

WhitePatternCorners(b) == {q \in PatternCorners : PatternAt(b, q[1], q[2])}

\* The rotations in the order top-left, top-right, bottom-left, bottom-right.
RotationOf_RowMajor(corner) ==
  CASE corner = <<0, 3>> -> 1
    [] corner = <<3, 0>> -> 2
    [] corner = <<3, 3>> -> 3
    [] OTHER -> 0

\* rotation by the position of the single white corner.
RotationOf(corner) ==
  CASE corner = <<0, 3>> -> 1
    [] corner = <<3, 3>> -> 2
    [] corner = <<3, 0>> -> 3
    [] OTHER -> 0

\* rotated_pattern[row][col] = pattern[src_row][src_col]
RotatedPatternAt(b, rotation, row, col) ==
  CASE rotation = 0 -> PatternAt(b, row, col)
    [] rotation = 1 -> PatternAt(b, col, 3 - row)
    [] rotation = 2 -> PatternAt(b, 3 - row, 3 - col)
    [] OTHER -> PatternAt(b, 3 - col, row)

\* The bit loop over the rotated pattern, cell n = row*4 + col.
RECURSIVE ReadBits(_, _, _, _, _)
ReadBits(b, rotation, n, bit_position, marker_id) ==
  IF n = 16
    THEN marker_id
    ELSE
      LET row == n \div 4
          col == n % 4
          is_white == RotatedPatternAt(b, rotation, row, col)
          is_corner == <<row, col>> \in PatternCorners
      IN  ReadBits(b, rotation, n + 1,
                   IF is_corner THEN bit_position ELSE bit_position + 1,
                   IF is_white /\ ~is_corner
                     THEN marker_id + Pow2(bit_position)
                     ELSE marker_id)

decodeBinaryPattern(b) ==
  LET white == WhitePatternCorners(b)
  IN  IF Cardinality(white) # 1
        THEN -1
        ELSE ReadBits(b, RotationOf(CHOOSE q \in white : TRUE), 0, 0, 0)

\* A calculateConfidence without the fixed 0.2.
calculateConfidence_NoFixedBonus(decoded_id) ==
  ConfBase + (IF decoded_id >= 0 /\ decoded_id < IdLimit THEN ConfRangeBonus ELSE 0)

calculateConfidence(decoded_id) ==
  LET c == ConfBase
           + (IF decoded_id >= 0 /\ decoded_id < IdLimit THEN ConfRangeBonus ELSE 0)
           + ConfFixedBonus
  IN  IF c < ConfCap THEN c ELSE ConfCap

\* A decodeMarker that returns true whatever the decoded id is.
decodeMarker_NoRangeCheck(p) ==
  LET b == NormalizePolarity(p)
  IN  IF ~isValidCodicePattern(b)
        THEN [ok |-> FALSE, id |-> -1, confidence |-> 0]
        ELSE
          LET marker_id == decodeBinaryPattern(b)
          IN  [ok |-> TRUE,
               id |-> marker_id,
               confidence |-> calculateConfidence(marker_id)]

\* The result of decodeMarker: ok is the return value; id and confidence are
\* the output parameters, left as the caller initialised them (-1, 0) when
\* border validation fails.
decodeMarker(p) ==
  LET b == NormalizePolarity(p)
  IN  IF ~isValidCodicePattern(b)
        THEN [ok |-> FALSE, id |-> -1, confidence |-> 0]
        ELSE
          LET marker_id == decodeBinaryPattern(b)
          IN  [ok |-> marker_id >= 0 /\ marker_id < IdLimit,
               id |-> marker_id,
               confidence |-> calculateConfidence(marker_id)]

(***************************************************************************)
(* ImageProcessor.  An object is the record of its parameter fields.       *)
(* contrast_alpha_ is in tenths.                                           *)
(***************************************************************************)
MAX_CONTOURS_TO_PROCESS == 1000

location_change_threshold_ == 30

\* ImageProcessor::ImageProcessor()
ImageProcessorNew ==
  [blur_kernel_size_ |-> 5, contrast_alpha_ |-> 12, brightness_beta_ |-> 10,
   canny_low_threshold_ |-> 50, canny_high_threshold_ |-> 150,
   min_contour_area_ |-> 1000, max_contour_area_ |-> 50000,
   min_contour_perimeter_ |-> 100]

setPreprocessingParams(self, blur_kernel_size, contrast_alpha, brightness_beta) ==
  [self EXCEPT !.blur_kernel_size_ = blur_kernel_size,
               !.contrast_alpha_ = contrast_alpha,
               !.brightness_beta_ = brightness_beta]

setEdgeDetectionParams(self, low_threshold, high_threshold) ==
  [self EXCEPT !.canny_low_threshold_ = low_threshold,
               !.canny_high_threshold_ = high_threshold]

setContourFilterParams(self, min_area, max_area, min_perimeter) ==
  [self EXCEPT !.min_contour_area_ = min_area,
               !.max_contour_area_ = max_area,
               !.min_contour_perimeter_ = min_perimeter]

validateParameters(self) ==
  /\ ~(self.blur_kernel_size_ < 0
       \/ (self.blur_kernel_size_ > 0 /\ self.blur_kernel_size_ % 2 = 0))
  /\ ~(self.contrast_alpha_ <= 0)
  /\ ~(self.canny_low_threshold_ < 0 \/ self.canny_high_threshold_ < 0
       \/ self.canny_low_threshold_ >= self.canny_high_threshold_)
  /\ ~(self.min_contour_area_ < 0 \/ self.max_contour_area_ < 0
       \/ self.min_contour_area_ >= self.max_contour_area_
       \/ self.min_contour_perimeter_ < 0)

(***************************************************************************)
(* Rasters and boundaries.  A raster is empty or shows a sequence of       *)
(* closed boundaries, in the order cv::findContours reports them.  A       *)
(* boundary is given by what OpenCV computes of it: its point count, area, *)
(* arc length and bounding box, its polygon approximation at 2% and at 5%  *)
(* of the arc length, the patch cv::warpPerspective resamples from inside  *)
(* it, and whether OpenCV raises cv::Exception while it is rectified.      *)
(***************************************************************************)
Square(x, y, side) ==
  << <<x, y>>, <<x + side, y>>, <<x + side, y + side>>, <<x, y + side>> >>

BlankPatch ==
  [rows |-> PatchSize, cols |-> PatchSize, ring |-> 0, on |-> 255, off |-> 0,
   S |-> {}, flaw |-> NoFlaw]

SquareBoundary(x, y, side, p, raises) ==
  [pts |-> 8, area |-> side * side, perimeter |-> 4 * side,
   width |-> side + 1, height |-> side + 1,
   approx2 |-> Square(x, y, side), approx5 |-> Square(x, y, side),
   patch |-> p, throws |-> raises]

PolygonBoundary(vertices) ==
  [pts |-> 2 * Len(vertices), area |-> 5000, perimeter |-> 300,
   width |-> 101, height |-> 101,
   approx2 |-> vertices, approx5 |-> vertices,
   patch |-> BlankPatch, throws |-> FALSE]

BoundaryNames ==
  {"marker", "second", "blank", "raising", "coarse", "pentagon", "hexagon"}

\* The first marker, seen 5, 30 and 40 pixels further right.
ShiftedBoundaryNames == {"marker5", "marker30", "marker40", "turned"}

Boundaries ==
  [name \in BoundaryNames \cup ShiftedBoundaryNames \cup {"speck"} |->
     CASE name = "speck" ->
            \* two touching pixels
            [pts |-> 2, area |-> 0, perimeter |-> 2, width |-> 2, height |-> 1,
             approx2 |-> << <<0, 0>>, <<1, 0>> >>,
             approx5 |-> << <<0, 0>>, <<1, 0>> >>,
             patch |-> BlankPatch, throws |-> FALSE]
       [] name = "marker" ->
            SquareBoundary(100, 100, 100, MarkerPatch(1, 0, 255), FALSE)
       [] name = "marker5" ->
            SquareBoundary(105, 100, 100, MarkerPatch(1, 0, 255), FALSE)
       [] name = "marker30" ->
            SquareBoundary(130, 100, 100, MarkerPatch(1, 0, 255), FALSE)
       [] name = "marker40" ->
            SquareBoundary(140, 100, 100, MarkerPatch(1, 0, 255), FALSE)
       [] name = "second" ->
            SquareBoundary(300, 100, 100, MarkerPatch(2, 0, 255), FALSE)
       [] name = "turned" ->
            \* a marker seen turned by 90 degrees
            SquareBoundary(100, 100, 100, RotatePatch(MarkerPatch(4, 0, 255), 1),
                           FALSE)
       [] name = "blank" ->
            SquareBoundary(500, 100, 100, BlankPatch, FALSE)
       [] name = "raising" ->
            SquareBoundary(100, 300, 100, MarkerPatch(1, 0, 255), TRUE)
       [] name = "pentagon" ->
            \* a square with a fifth vertex bulging out of its left side
            PolygonBoundary(<< <<400, 300>>, <<500, 300>>, <<500, 400>>,
                               <<400, 400>>, <<385, 350>> >>)
       [] name = "hexagon" ->
            PolygonBoundary(<< <<425, 500>>, <<475, 500>>, <<500, 550>>,
                               <<475, 600>>, <<425, 600>>, <<400, 550>> >>)
       [] OTHER ->
            \* a quadrilateral at 2% that loses a vertex at 5%
            [SquareBoundary(300, 300, 100, MarkerPatch(1, 0, 255), FALSE)
               EXCEPT !.approx5 = << <<300, 300>>, <<400, 300>>, <<400, 400>> >>]]

\* A raster is empty or shows boundaries; stage tells the raw input, the
\* preprocessed grayscale raster and the edge map apart.
EmptyRaster == [empty |-> TRUE, shapes |-> <<>>, stage |-> "none"]

\* ImageProcessor::preprocessFrame: grayscale, blur, contrast and brightness.
preprocessFrame(input_frame) ==
  [empty |-> input_frame.empty, shapes |-> input_frame.shapes, stage |-> "gray"]

\* The edge map of a raster: the boundaries of what the raster shows.
EdgeMap(raster) ==
  [empty |-> raster.empty, shapes |-> raster.shapes, stage |-> "edges"]

\* The raster detectMarkers hands to processContour: its frame argument in
\* the two-argument overload, original_frame in the three-argument one.
ContourFrame(op, args) == args[1]

\* ImageProcessor::processFrame: ok is the return value, processed_frame
\* the edge map.
processFrame(self, input_frame) ==
  IF input_frame.empty
    THEN [ok |-> FALSE, processed_frame |-> EmptyRaster]
    ELSE IF ~validateParameters(self)
      THEN [ok |-> FALSE, processed_frame |-> EmptyRaster]
      ELSE [ok |-> TRUE, processed_frame |-> EdgeMap(input_frame)]

\* |v1 . v2| / (|v1| |v2|) > cos(70 deg): the angle at p2 is below 70 degrees.
\* Compared by squares, cos(70 deg)^2 = 0.117, in thousandths.
AngleBelow70(p1, p2, p3) ==
  LET v1 == <<p1[1] - p2[1], p1[2] - p2[2]>>
      v2 == <<p3[1] - p2[1], p3[2] - p2[2]>>
      dot == v1[1] * v2[1] + v1[2] * v2[2]
      mag1sq == v1[1] * v1[1] + v1[2] * v1[2]
      mag2sq == v2[1] * v2[1] + v2[2] * v2[2]
  IN  /\ mag1sq > 0
      /\ mag2sq > 0
      /\ dot * dot > 117 * ((mag1sq * mag2sq) \div 1000)

\* A filterContour without the vertex-count test.
filterContour_AnyVertexCount(self, name) ==
  LET contour == Boundaries[name]
      approx == contour.approx2
  IN  /\ ~(contour.pts < 4)
      /\ ~(contour.area < self.min_contour_area_
           \/ contour.area > self.max_contour_area_)
      /\ ~(contour.perimeter < self.min_contour_perimeter_)
      /\ ~(contour.width * 100 < 80 * contour.height
           \/ contour.width * 100 > 125 * contour.height)
      /\ \A j \in 0..3 :
           ~AngleBelow70(approx[j + 1], approx[((j + 1) % 4) + 1],
                         approx[((j + 2) % 4) + 1])

filterContour(self, name) ==
  LET contour == Boundaries[name]
      approx == contour.approx2
  IN  /\ ~(contour.pts < 4)
      /\ ~(contour.area < self.min_contour_area_
           \/ contour.area > self.max_contour_area_)
      /\ ~(contour.perimeter < self.min_contour_perimeter_)
      /\ ~(Len(approx) # 4)
      /\ ~(contour.width * 100 < 80 * contour.height
           \/ contour.width * 100 > 125 * contour.height)
      /\ \A i \in 0..3 :
           ~AngleBelow70(approx[i + 1], approx[((i + 1) % 4) + 1],
                         approx[((i + 2) % 4) + 1])

\* findMarkerContours without the limit on the contours it looks at.
findMarkerContours_NoCap(self, processed_frame) ==
  LET filtered == SelectSeq(processed_frame.shapes,
                            LAMBDA name : filterContour(self, name))
  IN  [ok |-> ~processed_frame.empty /\ Len(filtered) > 0, contours |-> filtered]

\* ImageProcessor::findMarkerContours: ok is the return value.
findMarkerContours(self, processed_frame) ==
  IF processed_frame.empty
    THEN [ok |-> FALSE, contours |-> <<>>]
    ELSE
      LET found == processed_frame.shapes
          capped == IF Len(found) > MAX_CONTOURS_TO_PROCESS
                      THEN SubSeq(found, 1, MAX_CONTOURS_TO_PROCESS)
                      ELSE found
          filtered == SelectSeq(capped, LAMBDA name : filterContour(self, name))
      IN  [ok |-> Len(filtered) > 0, contours |-> filtered]

(***************************************************************************)
(* MarkerDetector: one candidate.                                          *)
(***************************************************************************)
\* decodeMarker on the patches the boundaries carry, tabulated.
DecodedPatch ==
  [name \in BoundaryNames \cup ShiftedBoundaryNames |-> decodeMarker(Boundaries[name].patch)]

\* CodiceMarker()
NoMarker ==
  [id |-> -1, confidence |-> 0, center |-> <<0, 0>>, angle |-> <<0, 0>>,
   deskew_angle |-> <<0, 0>>, corners |-> <<>>]

\* atan2(dy, dx) in degrees, kept as the direction <<dy, dx>> it is the
\* angle of.
Direction(from, to) == <<to[2] - from[2], to[1] - from[1]>>

\* cv::norm(b - a) < limit, over the reals
NormBelow(a, b, limit) ==
  /\ limit > 0
  /\ (b[1] - a[1]) * (b[1] - a[1]) + (b[2] - a[2]) * (b[2] - a[2]) < limit * limit

NormAbove(a, b, limit) ==
  \/ limit < 0
  \/ (b[1] - a[1]) * (b[1] - a[1]) + (b[2] - a[2]) * (b[2] - a[2]) > limit * limit

\* extractAndDeskewMarker: ok is the return value; a cv::Exception leaves
\* through the caller.
extractAndDeskewMarker(name, corners) ==
  IF Len(corners) # 4
    THEN [ok |-> FALSE, threw |-> FALSE, deskew_angle |-> <<0, 0>>]
    ELSE [ok |-> ~Boundaries[name].throws, threw |-> Boundaries[name].throws,
          deskew_angle |-> Direction(corners[1], corners[2])]

\* The rotation decodeBinaryPattern resolves for the patch of a boundary.
BeaconRotationOf(name) ==
  LET white == WhitePatternCorners(NormalizePolarity(Boundaries[name].patch))
  IN  IF Cardinality(white) = 1 THEN RotationOf(CHOOSE q \in white : TRUE) ELSE 0

\* A processContour that starts the corners at the corner of the beacon.
processContour_CornersFromBeacon(name, min_size, max_size) ==
  LET approx == Boundaries[name].approx5
  IN  IF Len(approx) # 4
        THEN [ok |-> FALSE, marker |-> NoMarker]
        ELSE
          LET turn == BeaconRotationOf(name)
              ordered_corners == [k \in 1..4 |-> approx[((k - 1 + turn) % 4) + 1]]
              center == <<(approx[1][1] + approx[2][1] + approx[3][1] + approx[4][1]) \div 4,
                          (approx[1][2] + approx[2][2] + approx[3][2] + approx[4][2]) \div 4>>
              region == extractAndDeskewMarker(name, approx)
              decoded == DecodedPatch[name]
          IN  IF \/ NormBelow(approx[1], approx[2], min_size)
                 \/ NormAbove(approx[1], approx[2], max_size)
                 \/ ~region.ok
                 \/ ~decoded.ok
                THEN [ok |-> FALSE, marker |-> NoMarker]
                ELSE [ok |-> TRUE,
                      marker |-> [id |-> decoded.id,
                                  confidence |-> decoded.confidence,
                                  center |-> center,
                                  angle |-> Direction(ordered_corners[1],
                                                      ordered_corners[2]),
                                  deskew_angle |-> region.deskew_angle,
                                  corners |-> ordered_corners]]

\* processContour: ok is the return value, marker the output parameter.
\* The corner coordinates in Boundaries make the quarter of their sum whole.
processContour(name, min_size, max_size) ==
  LET approx == Boundaries[name].approx5
  IN  IF Len(approx) # 4
        THEN [ok |-> FALSE, marker |-> NoMarker]
        ELSE
          LET ordered_corners == approx
              center == <<(approx[1][1] + approx[2][1] + approx[3][1] + approx[4][1]) \div 4,
                          (approx[1][2] + approx[2][2] + approx[3][2] + approx[4][2]) \div 4>>
              angle == Direction(ordered_corners[1], ordered_corners[2])
              region == extractAndDeskewMarker(name, ordered_corners)
              decoded == DecodedPatch[name]
          IN  IF NormBelow(ordered_corners[1], ordered_corners[2], min_size)
                 \/ NormAbove(ordered_corners[1], ordered_corners[2], max_size)
                THEN [ok |-> FALSE, marker |-> NoMarker]
                ELSE IF ~region.ok
                  THEN [ok |-> FALSE, marker |-> NoMarker]
                  ELSE IF ~decoded.ok
                    THEN [ok |-> FALSE, marker |-> NoMarker]
                    ELSE [ok |-> TRUE,
                          marker |-> [id |-> decoded.id,
                                      confidence |-> decoded.confidence,
                                      center |-> center,
                                      angle |-> angle,
                                      deskew_angle |-> region.deskew_angle,
                                      corners |-> ordered_corners]]

\* The gate of detectMarkers on a candidate's outcome.
Accepted(outcome, min_confidence) ==
  outcome.ok /\ outcome.marker.confidence >= min_confidence

\* A loop that ends at the first candidate processContour refuses.
AfterContour_AbortOnFailure(i, outcome, n) == IF outcome.ok THEN i + 1 ELSE n

\* The loop index after the candidate at index i, whatever its outcome: a
\* rejection falls through and an exception is caught and continues.
AfterContour(i, outcome, n) == i + 1

(***************************************************************************)
(* State.                                                                  *)
(***************************************************************************)
VARIABLES
  \* the decoder harness: a generated patch is decoded, then turned or
  \* inverted and decoded again
  patch,        \* the patch handed to testDecodeMarker
  genId,        \* the identifier whose bits the generated patch carries
  genCorners,   \* the inner corner cells generated white
  xform,        \* what was done to the generated patch
  baseResult,   \* the decode of the generated patch
  result,       \* the decode of the current patch
  dpc,          \* "off", "generated", "decoded", "transformed", "compared"
  \* MarkerDetector
  min_marker_size_,
  max_marker_size_,
  min_confidence_,               \* in tenths
  total_frames_processed_,
  total_markers_detected_,
  total_detection_attempts_,
  previous_marker_locations_,
  image_processor_,              \* the detector's own ImageProcessor
  debug_mode_,
  last_snapshot,                 \* the centers in the last debug set saved
  \* a detectMarkers call and its caller
  pc,           \* "idle", "loop" (inside detectMarkers), "done" (returning)
  call,         \* the call in progress: its name and arguments
  entry,        \* the counters and the caller's list as the call found them
  contours,     \* the candidates, by name
  i,            \* the loop index
  attempts,     \* the loop indices processContour was called for
  sampled,      \* the stage of the raster each candidate's patch was cut from
  written,      \* the kinds of debug files the call has written
  markers,      \* the caller's output vector
  ret,          \* the value returned
  \* an ImageProcessor of the caller's
  ip,
  processed,     \* what its last processFrame returned
  extraction,   \* the last findMarkerContours call of the caller's processor
  \* CameraManager
  initialized_,
  capturing_,
  frame_callback_,
  loops,        \* where each captureLoop thread started so far is
  lifetime,     \* where the CameraManager's owner is: "ready", "stopping",
                \* "stopped", "destroying", "destroyed"
  \* TUIOBridge
  tuio_server_,            \* whether the server was created
  running_,
  last_markers_,           \* marker id -> the state stored with it
  active_objects_,         \* session id -> TUIO object, or nullptr
  session_counter,         \* the static counter of getNextSessionId
  server_objects,          \* the objects alive in the TuioServer
  total_objects_created_,
  marker_history_,         \* marker id -> the states it went through
  events,                  \* the state transitions of the last updateMarkers
  first_detection,         \* marker id -> its last DETECTED transition
  bridge_call,             \* the marker ids of the last updateMarkers calls
  \* TUIOConfigManager
  config_,
  config_call   \* the last call: its name, what it returned, config_ before

decVars == <<patch, genId, genCorners, xform, baseResult, result, dpc>>

paramVars == <<min_marker_size_, max_marker_size_, min_confidence_>>

statVars ==
  <<total_frames_processed_, total_markers_detected_, total_detection_attempts_>>

detVars ==
  <<paramVars, statVars, previous_marker_locations_, image_processor_, debug_mode_,
    last_snapshot>>

callVars ==
  <<pc, call, entry, contours, i, attempts, sampled, written, markers, ret>>

ipVars == <<ip, processed, extraction>>

camVars == <<initialized_, capturing_, frame_callback_, loops, lifetime>>

bridgeVars ==
  <<tuio_server_, running_, last_markers_, active_objects_, session_counter,
    server_objects, total_objects_created_, marker_history_, events,
    first_detection, bridge_call>>

configVars == <<config_, config_call>>

tuioVars == <<bridgeVars, configVars>>

vars == <<decVars, detVars, callVars, ipVars, camVars, tuioVars>>

(***************************************************************************)
(* Bounds of the detector runs.                                            *)
(***************************************************************************)
\* A raster shows at most this many boundaries.
MaxContours == 2

\* total_frames_processed_ is counted up to this bound.
MaxCalls == 1

NoResult == [ok |-> FALSE, id |-> -1, confidence |-> 0]

NoCall == [op |-> "none", args |-> <<>>]

NoSnapshot == [any |-> FALSE, centers |-> <<>>]

NoEntry ==
  [frames |-> 0, detected |-> 0, attempts |-> 0, markers |-> <<>>,
   previous |-> <<>>, snapshot |-> NoSnapshot]

\* ok and processed_frame are what processFrame gave; input_frame and self
\* are what it was called with.
NotProcessed ==
  [ok |-> FALSE, processed_frame |-> EmptyRaster, input_frame |-> EmptyRaster,
   self |-> ImageProcessorNew]

NoFind ==
  [map |-> EmptyRaster, filter |-> <<0, 0, 0>>, ok |-> FALSE, contours |-> <<>>,
   run |-> 0]

\* MarkerDetector::MarkerDetector()
DetInit ==
  /\ min_marker_size_ = 40
  /\ max_marker_size_ = 200
  /\ min_confidence_ = 7
  /\ total_frames_processed_ = 0
  /\ total_markers_detected_ = 0
  /\ total_detection_attempts_ = 0
  /\ previous_marker_locations_ = <<>>
  /\ debug_mode_ = FALSE
  /\ last_snapshot = NoSnapshot
  /\ image_processor_ =
       setContourFilterParams(
         setEdgeDetectionParams(
           setPreprocessingParams(ImageProcessorNew, 1, 13, 20), 30, 100),
         500, 100000, 80)

\* A marker left in the caller's vector by an earlier use.
StaleMarker ==
  [id |-> 7, confidence |-> 10, center |-> <<60, 60>>, angle |-> <<0, 1>>,
   deskew_angle |-> <<0, 1>>,
   corners |-> << <<10, 10>>, <<110, 10>>, <<110, 110>>, <<10, 110>> >>]

\* The caller's vector is empty or holds a marker already.
CallInit ==
  /\ pc = "idle"
  /\ call = NoCall
  /\ entry = NoEntry
  /\ contours = <<>>
  /\ i = 0
  /\ attempts = <<>>
  /\ sampled = <<>>
  /\ written = {}
  /\ markers \in {<<>>, <<StaleMarker>>}
  /\ ret = FALSE

IpInit ==
  /\ ip = ImageProcessorNew
  /\ processed = NotProcessed
  /\ extraction = NoFind

\* CameraManager::CameraManager
CamInit ==
  /\ initialized_ = FALSE
  /\ capturing_ = FALSE
  /\ frame_callback_ = FALSE
  /\ loops = <<>>
  /\ lifetime = "ready"

\* static int session_counter = 1000 in getNextSessionId.
FirstSessionCounter == 1000

\* The null TuioObject pointer.
nullptr == [oid |-> 0, symbol |-> 0 - 1]

\* TUIOBridge::TUIOBridge
BridgeInit ==
  /\ tuio_server_ = FALSE
  /\ running_ = FALSE
  /\ last_markers_ = <<>>
  /\ active_objects_ = <<>>
  /\ session_counter = FirstSessionCounter
  /\ server_objects = {}
  /\ total_objects_created_ = 0
  /\ marker_history_ = <<>>
  /\ events = <<>>
  /\ first_detection = <<>>
  /\ bridge_call = <<>>

\* TUIOStreamingConfig::setDefaults; of the fields validate examines the
\* model keeps the host, the port and the frame rate, the others stay at
\* their defaults.
DefaultStreamingConfig == [host |-> "localhost", port |-> 3333, max_fps |-> 30]

NoConfigCall == [op |-> "none", ret |-> "true", before |-> DefaultStreamingConfig]

\* TUIOConfigManager::TUIOConfigManager
ConfigManagerInit ==
  /\ config_ = DefaultStreamingConfig
  /\ config_call = NoConfigCall

TuioInit == BridgeInit /\ ConfigManagerInit

DecOff ==
  /\ patch = BlankPatch
  /\ genId = 0
  /\ genCorners = {}
  /\ xform = <<"none", 0>>
  /\ baseResult = NoResult
  /\ result = NoResult
  /\ dpc = "off"

(***************************************************************************)
(* The decoder harness.                                                    *)
(***************************************************************************)
\* The identifiers with at most MaxWhiteData bits set.
GenIds == {k \in 0..(IdLimit - 1) : PopCount(k) <= MaxWhiteData}

GreyLevels == {80, 255}

DecInit ==
  /\ genId \in GenIds
  /\ genCorners \in SUBSET CornerCells
  /\ \E whiteLevel \in GreyLevels, ringLevel \in {0, 1} :
       patch = [rows |-> PatchSize, cols |-> PatchSize,
                ring |-> IF ringLevel = 1 THEN whiteLevel ELSE 0,
                on |-> whiteLevel, off |-> 0,
                S |-> genCorners \cup EncodeId(genId), flaw |-> NoFlaw]
  /\ xform = <<"none", 0>>
  /\ baseResult = NoResult
  /\ result = NoResult
  /\ dpc = "generated"

testDecodeMarker ==
  /\ dpc \in {"generated", "transformed"}
  /\ LET decoded == decodeMarker(patch)
     IN  /\ result' = decoded
         /\ baseResult' = IF dpc = "generated" THEN decoded ELSE baseResult
  /\ dpc' = IF dpc = "generated" THEN "decoded" ELSE "compared"
  /\ UNCHANGED <<patch, genId, genCorners, xform>>
  /\ UNCHANGED <<detVars, callVars, ipVars>>
  /\ UNCHANGED <<camVars, tuioVars>>

Rotate ==
  /\ dpc = "decoded"
  /\ \E n \in 1..3 :
       /\ patch' = RotatePatch(patch, n)
       /\ xform' = <<"rotate", n>>
  /\ dpc' = "transformed"
  /\ UNCHANGED <<genId, genCorners, baseResult, result>>
  /\ UNCHANGED <<detVars, callVars, ipVars>>
  /\ UNCHANGED <<camVars, tuioVars>>

Invert ==
  /\ dpc = "decoded"
  /\ patch' = InvertPatch(patch)
  /\ xform' = <<"invert", 0>>
  /\ dpc' = "transformed"
  /\ UNCHANGED <<genId, genCorners, baseResult, result>>
  /\ UNCHANGED <<detVars, callVars, ipVars>>
  /\ UNCHANGED <<camVars, tuioVars>>

DecNext == testDecodeMarker \/ Rotate \/ Invert

\* Patches for the checks decodeMarker makes before it reads the pattern:
\* the marker of identifier 1 with stretches of its outermost lines of the
\* wrong level, and patches that are empty or not 120 x 120.
PatchSizes == {<<0, 0>>, <<50, 50>>, <<100, 100>>, <<PatchSize, 100>>}

RingFlaws ==
  [top : {NoStretch, <<61, 119>>},
   left : {NoStretch, <<61, 119>>},
   bottom : {NoStretch, <<0, 50>>, <<0, 51>>, <<0, 119>>},
   right : {NoStretch, <<0, 118>>, <<0, 119>>}]

PatchInit ==
  /\ genId = 1
  /\ genCorners = {<<1, 1>>}
  /\ \E ringLevel \in {0, 255} :
       \/ \E f \in RingFlaws :
            patch = [MarkerPatch(1, ringLevel, 255) EXCEPT !.flaw = f]
       \/ \E size \in PatchSizes :
            patch = [MarkerPatch(1, ringLevel, 255) EXCEPT !.rows = size[1],
                                                         !.cols = size[2]]
  /\ xform = <<"none", 0>>
  /\ baseResult = NoResult
  /\ result = NoResult
  /\ dpc = "generated"

InitPatch == PatchInit /\ DetInit /\ CallInit /\ IpInit /\ CamInit /\ TuioInit

SpecPatch == InitPatch /\ [][DecNext]_vars

InitDecode == DecInit /\ DetInit /\ CallInit /\ IpInit /\ CamInit /\ TuioInit

SpecDecode == InitDecode /\ [][DecNext]_vars

(***************************************************************************)
(* MarkerDetector::detectMarkers.                                          *)
(***************************************************************************)
\* The boundaries a raster can show: each boundary at most once, in any
\* order of discovery.
BoundarySeqs ==
  UNION {{s \in [1..n -> BoundaryNames] :
            \A j, k \in 1..n : s[j] = s[k] => j = k} : n \in 0..MaxContours}

\* The non-empty rasters.
Frames == {[empty |-> FALSE, shapes |-> s, stage |-> "input"] : s \in BoundarySeqs}

Snapshot ==
  [frames |-> total_frames_processed_, detected |-> total_markers_detected_,
   attempts |-> total_detection_attempts_, markers |-> markers,
   previous |-> previous_marker_locations_, snapshot |-> last_snapshot]

\* A count taken before the confidence gate.
CountDetected_BeforeGate(total, outcome, min_confidence) ==
  IF outcome.ok THEN total + 1 ELSE total

\* total_markers_detected_ after a candidate's outcome.
CountDetected(total, outcome, min_confidence) ==
  IF Accepted(outcome, min_confidence) THEN total + 1 ELSE total

\* hasLocationChanged with the threshold itself counted as a change.
hasLocationChanged_Inclusive(previous, current_markers) ==
  \/ Len(previous) = 0
  \/ Len(current_markers) # Len(previous)
  \/ \E k \in 1..Len(current_markers) :
       ~NormBelow(previous[k], current_markers[k].center, location_change_threshold_)

\* The debug files of a contour with only the timestamp tested.
ContourDebugFiles_TimestampOnly(name, debug_mode, min_size, max_size) ==
  IF Boundaries[name].width > 20 /\ Boundaries[name].height > 20
    THEN {"contour_attempt"} ELSE {}

\* MarkerDetector::hasLocationChanged
hasLocationChanged(previous, current_markers) ==
  IF Len(previous) = 0
    THEN TRUE
    ELSE IF Len(current_markers) # Len(previous)
      THEN TRUE
      ELSE \E k \in 1..Len(current_markers) :
             NormAbove(previous[k], current_markers[k].center,
                       location_change_threshold_)

\* processContour got as far as decodeMarker for this contour.
ReachesDecode(name, min_size, max_size) ==
  LET approx == Boundaries[name].approx5
  IN  /\ Len(approx) = 4
      /\ ~NormBelow(approx[1], approx[2], min_size)
      /\ ~NormAbove(approx[1], approx[2], max_size)
      /\ extractAndDeskewMarker(name, approx).ok

\* The debug files one processContour call writes: the crop of the contour
\* attempt, and the binary marker once decodeMarker is reached.  The
\* timestamp detectMarkers generates is never empty; every boundary lies
\* inside the frame.
ContourDebugFiles(name, debug_mode, min_size, max_size) ==
  (IF debug_mode /\ Boundaries[name].width > 20 /\ Boundaries[name].height > 20
     THEN {"contour_attempt"} ELSE {})
  \cup
  (IF debug_mode /\ ReachesDecode(name, min_size, max_size)
     THEN {"binary_marker"} ELSE {})

\* MarkerDetector::setDebugMode
setDebugMode(enable) ==
  /\ pc = "idle"
  /\ debug_mode_' = enable
  /\ UNCHANGED <<paramVars, statVars, previous_marker_locations_, image_processor_,
                 last_snapshot>>
  /\ UNCHANGED <<callVars, decVars, ipVars>>
  /\ UNCHANGED <<camVars, tuioVars>>

\* detectMarkers(frame, markers), up to the loop.
detectMarkers(frame) ==
  /\ pc = "idle"
  /\ LET pf == processFrame(image_processor_, frame)
         found == findMarkerContours(image_processor_, pf.processed_frame)
         proceeds == ~frame.empty /\ pf.ok
     IN  /\ call' = [op |-> "detectMarkers", args |-> <<frame>>]
         /\ total_frames_processed_' =
              IF frame.empty THEN total_frames_processed_
                             ELSE total_frames_processed_ + 1
         /\ markers' = IF frame.empty THEN markers ELSE <<>>
         /\ contours' = IF proceeds /\ found.ok THEN found.contours ELSE <<>>
         /\ pc' = IF proceeds THEN "loop" ELSE "done"
  /\ entry' = Snapshot
  /\ i' = 0
  /\ attempts' = <<>>
  /\ sampled' = <<>>
  /\ written' = {}
  /\ ret' = FALSE
  /\ UNCHANGED <<paramVars, total_markers_detected_, total_detection_attempts_,
                 previous_marker_locations_, image_processor_, debug_mode_,
                 last_snapshot>>
  /\ UNCHANGED <<decVars, ipVars>>
  /\ UNCHANGED <<camVars, tuioVars>>

\* detectMarkers(original_frame, processed_frame, markers), up to the loop.
detectMarkersProcessed(original_frame, processed_frame) ==
  /\ pc = "idle"
  /\ LET found == findMarkerContours(image_processor_, processed_frame)
         proceeds == ~(original_frame.empty \/ processed_frame.empty)
     IN  /\ call' = [op |-> "detectMarkersProcessed",
                     args |-> <<original_frame, processed_frame>>]
         /\ contours' = IF proceeds /\ found.ok THEN found.contours ELSE <<>>
         /\ pc' = IF proceeds THEN "loop" ELSE "done"
  /\ total_frames_processed_' = total_frames_processed_ + 1
  /\ markers' = <<>>
  /\ entry' = Snapshot
  /\ i' = 0
  /\ attempts' = <<>>
  /\ sampled' = <<>>
  /\ written' = {}
  /\ ret' = FALSE
  /\ UNCHANGED <<paramVars, total_markers_detected_, total_detection_attempts_,
                 previous_marker_locations_, image_processor_, debug_mode_,
                 last_snapshot>>
  /\ UNCHANGED <<decVars, ipVars>>
  /\ UNCHANGED <<camVars, tuioVars>>

\* The detector is given any raster, within the bound on counted frames.
DetectFrame ==
  \E frame \in Frames \cup {EmptyRaster} :
    /\ ~frame.empty => total_frames_processed_ < MaxCalls
    /\ detectMarkers(frame)

\* The processed frame is the edge map of the original, or either is empty.
DetectProcessedFrame ==
  \E frame \in Frames, original_empty \in BOOLEAN, processed_empty \in BOOLEAN :
    /\ total_frames_processed_ < MaxCalls
    /\ detectMarkersProcessed(IF original_empty THEN EmptyRaster ELSE frame,
                              IF processed_empty THEN EmptyRaster
                                                 ELSE EdgeMap(frame))

\* One turn of the loop over the candidates.
ProcessNextContour ==
  /\ pc = "loop"
  /\ i < Len(contours)
  /\ LET outcome == processContour(contours[i + 1], min_marker_size_, max_marker_size_)
     IN  /\ markers' = IF Accepted(outcome, min_confidence_)
                         THEN Append(markers, outcome.marker)
                         ELSE markers
         /\ total_markers_detected_' =
              CountDetected(total_markers_detected_, outcome, min_confidence_)
         /\ i' = AfterContour(i, outcome, Len(contours))
  /\ total_detection_attempts_' = total_detection_attempts_ + 1
  /\ attempts' = Append(attempts, i)
  /\ sampled' = Append(sampled, ContourFrame(call.op, call.args).stage)
  /\ written' = written \cup ContourDebugFiles(contours[i + 1], debug_mode_,
                                               min_marker_size_, max_marker_size_)
  /\ UNCHANGED <<pc, call, entry, contours, ret>>
  /\ UNCHANGED <<paramVars, total_frames_processed_, previous_marker_locations_,
                 image_processor_, debug_mode_, last_snapshot>>
  /\ UNCHANGED <<decVars, ipVars>>
  /\ UNCHANGED <<camVars, tuioVars>>

\* After the loop: the debug set is saved when debug mode is on and the
\* locations changed, the previous locations are replaced and true is
\* returned.
FinishDetect ==
  /\ pc = "loop"
  /\ ~(i < Len(contours))
  /\ LET saves == debug_mode_ /\ hasLocationChanged(previous_marker_locations_, markers)
     IN  /\ written' = IF saves THEN written \cup {"debug_frame"} ELSE written
         /\ last_snapshot' =
              IF saves
                THEN [any |-> TRUE,
                      centers |-> [k \in 1..Len(markers) |-> markers[k].center]]
                ELSE last_snapshot
  /\ previous_marker_locations_' = [k \in 1..Len(markers) |-> markers[k].center]
  /\ ret' = TRUE
  /\ pc' = "done"
  /\ UNCHANGED <<call, entry, contours, i, attempts, sampled, markers>>
  /\ UNCHANGED <<paramVars, statVars, image_processor_, debug_mode_>>
  /\ UNCHANGED <<decVars, ipVars>>
  /\ UNCHANGED <<camVars, tuioVars>>

\* The call returns: its locals are gone, the caller keeps ret and markers.
Return ==
  /\ pc = "done"
  /\ pc' = "idle"
  /\ call' = NoCall
  /\ entry' = NoEntry
  /\ contours' = <<>>
  /\ i' = 0
  /\ attempts' = <<>>
  /\ sampled' = <<>>
  /\ written' = {}
  /\ UNCHANGED <<markers, ret>>
  /\ UNCHANGED <<detVars, decVars, ipVars>>
  /\ UNCHANGED <<camVars, tuioVars>>

(***************************************************************************)
(* The configuration setters.                                              *)
(***************************************************************************)
\* (min_marker_size, max_marker_size, min_confidence in tenths)
DetectionParamChoices == {<<30, 300, 10>>, <<40, 200, 15>>}

\* (blur_kernel_size, contrast_alpha in tenths, brightness_beta)
PreprocessingChoices == {<<5, 12, 10>>, <<1, 13, 20>>, <<4, 12, 10>>, <<5, 0, 10>>, <<0, 12, 10>>}

\* (low_threshold, high_threshold)
EdgeDetectionChoices == {<<50, 150>>, <<30, 100>>, <<100, 50>>}

\* (min_area, max_area, min_perimeter)
ContourFilterChoices == {<<1000, 50000, 100>>, <<500, 100000, 80>>, <<50000, 1000, 100>>}

setDetectionParams(min_marker_size, max_marker_size, min_confidence) ==
  /\ pc = "idle"
  /\ min_marker_size_' = min_marker_size
  /\ max_marker_size_' = max_marker_size
  /\ min_confidence_' = min_confidence
  /\ UNCHANGED <<statVars, previous_marker_locations_, image_processor_, debug_mode_,
                 last_snapshot>>
  /\ UNCHANGED <<callVars, decVars, ipVars>>
  /\ UNCHANGED <<camVars, tuioVars>>

\* The caller's ImageProcessor receives setPreprocessingParams.
callSetPreprocessingParams(blur_kernel_size, contrast_alpha, brightness_beta) ==
  /\ pc = "idle"
  /\ ip' = setPreprocessingParams(ip, blur_kernel_size, contrast_alpha, brightness_beta)
  /\ UNCHANGED <<processed, extraction, detVars, callVars, decVars>>
  /\ UNCHANGED <<camVars, tuioVars>>

callSetEdgeDetectionParams(low_threshold, high_threshold) ==
  /\ pc = "idle"
  /\ ip' = setEdgeDetectionParams(ip, low_threshold, high_threshold)
  /\ UNCHANGED <<processed, extraction, detVars, callVars, decVars>>
  /\ UNCHANGED <<camVars, tuioVars>>

callSetContourFilterParams(min_area, max_area, min_perimeter) ==
  /\ pc = "idle"
  /\ ip' = setContourFilterParams(ip, min_area, max_area, min_perimeter)
  /\ UNCHANGED <<processed, extraction, detVars, callVars, decVars>>
  /\ UNCHANGED <<camVars, tuioVars>>

\* processFrame on the caller's ImageProcessor.
callProcessFrame ==
  /\ pc = "idle"
  /\ \E frame \in {EmptyRaster, [empty |-> FALSE, shapes |-> <<"marker">>, stage |-> "input"]} :
       LET r == processFrame(ip, frame)
       IN  processed' = [ok |-> r.ok, processed_frame |-> r.processed_frame,
                         input_frame |-> frame, self |-> ip]
  /\ UNCHANGED <<ip, extraction, detVars, callVars, decVars>>
  /\ UNCHANGED <<camVars, tuioVars>>

\* An edge map with one boundary more than findMarkerContours looks at: a
\* marker first, a second marker last, specks between them.
CrowdedShapes ==
  [k \in 1..(MAX_CONTOURS_TO_PROCESS + 1) |->
     IF k = 1 THEN "marker"
     ELSE IF k = MAX_CONTOURS_TO_PROCESS + 1 THEN "second" ELSE "speck"]

EdgeMaps ==
  {EmptyRaster}
    \cup {[empty |-> FALSE, shapes |-> sh, stage |-> "edges"] :
            sh \in {<<"marker", "second">>, <<"second", "hexagon", "marker">>,
                    CrowdedShapes}}

\* findMarkerContours on the caller's ImageProcessor.  contours is the
\* caller's vector: an empty frame returns before it is touched.
callFindMarkerContours ==
  /\ pc = "idle"
  /\ \E processed_frame \in EdgeMaps :
       LET r == findMarkerContours(ip, processed_frame)
       IN  extraction' = [map |-> processed_frame,
                          filter |-> <<ip.min_contour_area_, ip.max_contour_area_,
                                       ip.min_contour_perimeter_>>,
                          ok |-> r.ok,
                          contours |-> IF processed_frame.empty
                                         THEN extraction.contours
                                         ELSE r.contours,
                          run |-> 1 - extraction.run]
  /\ UNCHANGED <<ip, processed, detVars, callVars, decVars>>
  /\ UNCHANGED <<camVars, tuioVars>>

(***************************************************************************)
(* CameraManager.                                                          *)
(***************************************************************************)
MaxCaptureStarts == 3

LoopIds == 1..MaxCaptureStarts

\* The captureLoop threads that have not returned.
RunningLoops == {t \in 1..Len(loops) : loops[t] # "returned"}

\* The owner is outside stopCapture and has not destroyed the CameraManager.
OwnerFree == lifetime \in {"ready", "stopped"}

\* CameraManager::initialize; the device opens or it does not.
initialize ==
  /\ OwnerFree
  /\ \E opened \in BOOLEAN :
       initialized_' = IF initialized_ THEN TRUE ELSE opened
  /\ UNCHANGED <<capturing_, frame_callback_, loops, lifetime>>
  /\ UNCHANGED <<decVars, detVars, callVars, ipVars, tuioVars>>

\* CameraManager::startCapture; the thread it starts is detached.
startCapture(callback) ==
  /\ OwnerFree
  /\ Len(loops) < MaxCaptureStarts
  /\ IF ~initialized_ \/ capturing_ \/ ~callback
       THEN UNCHANGED <<capturing_, frame_callback_, loops, lifetime>>
       ELSE /\ frame_callback_' = callback
            /\ capturing_' = TRUE
            /\ loops' = Append(loops, "while")
            /\ lifetime' = "ready"
  /\ UNCHANGED initialized_
  /\ UNCHANGED <<decVars, detVars, callVars, ipVars, tuioVars>>

\* CameraManager::stopCapture up to its sleep: it returns at once when not
\* capturing, else the flag is cleared and the caller sleeps 100 ms; the
\* thread is not joined.
stopCapture ==
  /\ OwnerFree
  /\ capturing_' = FALSE
  /\ lifetime' = IF capturing_ THEN "stopping" ELSE "stopped"
  /\ UNCHANGED <<initialized_, frame_callback_, loops>>
  /\ UNCHANGED <<decVars, detVars, callVars, ipVars, tuioVars>>

\* CameraManager::~CameraManager: stopCapture(), then the members are
\* destroyed.
destroyCameraManager ==
  /\ OwnerFree
  /\ capturing_' = FALSE
  /\ lifetime' = IF capturing_ THEN "destroying" ELSE "destroyed"
  /\ UNCHANGED <<initialized_, frame_callback_, loops>>
  /\ UNCHANGED <<decVars, detVars, callVars, ipVars, tuioVars>>

\* The 100 ms sleep of stopCapture ends and it returns, to its caller or
\* into the destructor.
stopCaptureReturn ==
  /\ lifetime \in {"stopping", "destroying"}
  /\ lifetime' = IF lifetime = "stopping" THEN "stopped" ELSE "destroyed"
  /\ UNCHANGED <<initialized_, capturing_, frame_callback_, loops>>
  /\ UNCHANGED <<decVars, detVars, callVars, ipVars, tuioVars>>

\* captureLoop: while (capturing_).  capturing_ is a plain bool written by
\* another thread: the read gives its value or the true it had when the
\* thread was started; read from a destroyed CameraManager it gives either
\* value.
LoopWhile(t) ==
  /\ t \in 1..Len(loops)
  /\ loops[t] = "while"
  /\ \E seen \in (IF lifetime = "destroyed" THEN BOOLEAN ELSE {capturing_, TRUE}) :
       loops' = [loops EXCEPT ![t] = IF seen THEN "read" ELSE "returned"]
  /\ UNCHANGED <<initialized_, capturing_, frame_callback_, lifetime>>
  /\ UNCHANGED <<decVars, detVars, callVars, ipVars, tuioVars>>

\* captureLoop: cap_->read(frame) fails, gives an empty frame, or a frame;
\* if (frame_callback_) read from a destroyed CameraManager goes either way.
LoopRead(t) ==
  /\ t \in 1..Len(loops)
  /\ loops[t] = "read"
  /\ \E got \in {"failed", "empty", "frame"} :
     \E set \in (IF lifetime = "destroyed" THEN BOOLEAN ELSE {frame_callback_}) :
       loops' = [loops EXCEPT ![t] =
                   CASE got = "failed" -> "returned"
                     [] got = "empty" -> "while"
                     [] OTHER -> IF set THEN "callback" ELSE "sleep"]
  /\ UNCHANGED <<initialized_, capturing_, frame_callback_, lifetime>>
  /\ UNCHANGED <<decVars, detVars, callVars, ipVars, tuioVars>>

\* captureLoop: frame_callback_(frame) returns.
LoopCallback(t) ==
  /\ t \in 1..Len(loops)
  /\ loops[t] = "callback"
  /\ loops' = [loops EXCEPT ![t] = "sleep"]
  /\ UNCHANGED <<initialized_, capturing_, frame_callback_, lifetime>>
  /\ UNCHANGED <<decVars, detVars, callVars, ipVars, tuioVars>>

\* captureLoop: the sleep that keeps the frame rate ends.
LoopSleep(t) ==
  /\ t \in 1..Len(loops)
  /\ loops[t] = "sleep"
  /\ loops' = [loops EXCEPT ![t] = "while"]
  /\ UNCHANGED <<initialized_, capturing_, frame_callback_, lifetime>>
  /\ UNCHANGED <<decVars, detVars, callVars, ipVars, tuioVars>>

captureLoop == \E t \in LoopIds : LoopWhile(t) \/ LoopRead(t) \/ LoopCallback(t) \/ LoopSleep(t)

CameraNext ==
  \/ initialize
  \/ \E callback \in BOOLEAN : startCapture(callback)
  \/ stopCapture
  \/ stopCaptureReturn
  \/ destroyCameraManager
  \/ captureLoop

(***************************************************************************)
(* TUIOBridge.                                                             *)
(***************************************************************************)
MaxBridgeCalls == 3

\* The ids of the markers the caller passes: two Codice ids and one out of
\* range.  Their coordinates and confidence are in range.
BridgeMarkerIds == {1, 2, 5000}

isValidCodiceId(marker_id) == marker_id >= 0 /\ marker_id <= 4095

validateMapping(marker_id) == isValidCodiceId(marker_id)

\* std::map::erase and operator[] assignment.
Erase(map, key) == [k \in DOMAIN map \ {key} |-> map[k]]

Put(map, key, value) ==
  [k \in DOMAIN map \cup {key} |-> IF k = key THEN value ELSE map[k]]

Lowest(keys) == CHOOSE k \in keys : \A other \in keys : k <= other

\* The members of the bridge an updateMarkers call works on.
BridgeMembers ==
  [last_markers_ |-> last_markers_,
   active_objects_ |-> active_objects_,
   session_counter |-> session_counter,
   server_objects |-> server_objects,
   total_objects_created_ |-> total_objects_created_,
   marker_history_ |-> marker_history_,
   first_detection |-> first_detection,
   events |-> <<>>]

\* generateSessionId: getNextSessionId gives ++session_counter, whatever the
\* marker id.
generateSessionId(b, marker_id) == b.session_counter + 1

\* addToHistory: the last ten states of the marker.
addToHistory(history, marker_id, state) ==
  LET before == IF marker_id \in DOMAIN history THEN history[marker_id] ELSE <<>>
      after == Append(before, state)
  IN  Put(history, marker_id, IF Len(after) > 10 THEN Tail(after) ELSE after)

\* handleStateTransition, with the session id and the object the transition
\* was made for.
handleStateTransition(b, marker_id, new_state, session_id, obj) ==
  LET event == [id |-> marker_id, state |-> new_state,
                session_id |-> session_id, obj |-> obj]
  IN  [b EXCEPT !.marker_history_ = addToHistory(@, marker_id, new_state),
                !.events = Append(@, event),
                !.first_detection =
                  IF new_state = "DETECTED" THEN Put(@, marker_id, event) ELSE @]

\* cleanupExpiredMarkers: the expired markers leave last_markers_; the object
\* looked up for each is the one under a newly generated session id.
RECURSIVE cleanupExpiredMarkers(_, _)
cleanupExpiredMarkers(b, expired_markers) ==
  IF expired_markers = {}
    THEN b
    ELSE LET marker_id == Lowest(expired_markers)
             session_id == generateSessionId(b, marker_id)
             active == session_id \in DOMAIN b.active_objects_
             cleaned ==
               [b EXCEPT
                  !.session_counter = session_id,
                  !.server_objects =
                    IF active THEN @ \ {b.active_objects_[session_id]} ELSE @,
                  !.active_objects_ = IF active THEN Erase(@, session_id) ELSE @,
                  !.last_markers_ = Erase(@, marker_id)]
         IN  cleanupExpiredMarkers(cleaned, expired_markers \ {marker_id})

\* TuioServer::addTuioObject: a new object with the marker id as symbol id.
addTuioObject(b, marker_id) ==
  [oid |-> b.total_objects_created_ + 1, symbol |-> marker_id]

\* The body of the loop over the markers of updateMarkers.
UpdateMarker(b, marker_id) ==
  IF ~validateMapping(marker_id)
    THEN b
    ELSE
      LET session_id == generateSessionId(b, marker_id)
          is_new_marker == marker_id \notin DOMAIN b.last_markers_
          b0 == [b EXCEPT !.session_counter = session_id]
      IN  IF is_new_marker
            THEN
              LET obj == addTuioObject(b0, marker_id)
                  added ==
                    [b0 EXCEPT !.server_objects = @ \cup {obj},
                               !.active_objects_ = Put(@, session_id, obj),
                               !.total_objects_created_ = @ + 1,
                               !.last_markers_ = Put(@, marker_id, "DETECTED")]
              IN  handleStateTransition(added, marker_id, "DETECTED", session_id, obj)
            ELSE
              \* active_objects_[session_id] inserts a null pointer for a
              \* session id the map does not hold; updateTuioObject is
              \* called with what the map gave.
              LET obj == IF session_id \in DOMAIN b0.active_objects_
                           THEN b0.active_objects_[session_id]
                           ELSE nullptr
                  updated ==
                    [b0 EXCEPT !.active_objects_ = Put(@, session_id, obj),
                               !.last_markers_ = Put(@, marker_id, "ACTIVE")]
              IN  handleStateTransition(updated, marker_id, "UPDATED", session_id, obj)

RECURSIVE UpdateEach(_, _)
UpdateEach(b, ids) ==
  IF ids = {}
    THEN b
    ELSE UpdateEach(UpdateMarker(b, Lowest(ids)), ids \ {Lowest(ids)})

\* The session ids updateMarkers collects for removal: null entries and
\* objects whose symbol id is not among the current marker ids.
ToRemove(b, current_marker_ids) ==
  {session_id \in DOMAIN b.active_objects_ :
     \/ b.active_objects_[session_id] = nullptr
     \/ b.active_objects_[session_id].symbol \notin current_marker_ids}

RECURSIVE RemoveEach(_, _)
RemoveEach(b, to_remove) ==
  IF to_remove = {}
    THEN b
    ELSE
      LET session_id == Lowest(to_remove)
          obj == b.active_objects_[session_id]
          lost == IF obj.symbol \in DOMAIN b.last_markers_
                    THEN handleStateTransition(b, obj.symbol, "LOST", session_id, obj)
                    ELSE b
          removed ==
            IF obj = nullptr
              THEN [b EXCEPT !.active_objects_ = Erase(@, session_id)]
              ELSE [lost EXCEPT !.server_objects = @ \ {obj},
                                !.active_objects_ = Erase(@, session_id)]
      IN  RemoveEach(removed, to_remove \ {session_id})

\* TUIOBridge::initialize
initializeBridge ==
  /\ tuio_server_' = TRUE
  /\ UNCHANGED <<running_, last_markers_, active_objects_, session_counter,
                 server_objects, total_objects_created_, marker_history_, events,
                 first_detection, bridge_call>>
  /\ UNCHANGED <<decVars, detVars, callVars, ipVars, camVars, configVars>>

\* TUIOBridge::start
start ==
  /\ running_' = IF tuio_server_ THEN TRUE ELSE running_
  /\ UNCHANGED <<tuio_server_, last_markers_, active_objects_, session_counter,
                 server_objects, total_objects_created_, marker_history_, events,
                 first_detection, bridge_call>>
  /\ UNCHANGED <<decVars, detVars, callVars, ipVars, camVars, configVars>>

\* TUIOBridge::updateMarkers.  last_seen is the caller's time stamp: which of
\* the stored markers are older than marker_timeout_ms_ is the caller's and
\* the clock's choice.
updateMarkers(ids) ==
  /\ Len(bridge_call) < MaxBridgeCalls
  /\ IF ~tuio_server_ \/ ~running_
       THEN UNCHANGED <<last_markers_, active_objects_, session_counter,
                        server_objects, total_objects_created_, marker_history_,
                        events, first_detection, bridge_call>>
       ELSE \E expired_markers \in SUBSET DOMAIN last_markers_ :
              LET cleaned == cleanupExpiredMarkers(BridgeMembers, expired_markers)
                  updated == UpdateEach(cleaned, ids)
                  b == RemoveEach(updated, ToRemove(updated, ids))
              IN  /\ last_markers_' = b.last_markers_
                  /\ active_objects_' = b.active_objects_
                  /\ session_counter' = b.session_counter
                  /\ server_objects' = b.server_objects
                  /\ total_objects_created_' = b.total_objects_created_
                  /\ marker_history_' = b.marker_history_
                  /\ events' = b.events
                  /\ first_detection' = b.first_detection
                  /\ bridge_call' = Append(bridge_call, ids)
  /\ UNCHANGED <<tuio_server_, running_>>
  /\ UNCHANGED <<decVars, detVars, callVars, ipVars, camVars, configVars>>

BridgeNext ==
  \/ initializeBridge
  \/ start
  \/ \E ids \in SUBSET BridgeMarkerIds : updateMarkers(ids)

(***************************************************************************)
(* TUIOConfigManager.                                                      *)
(***************************************************************************)
\* The configurations a caller builds: in range, at and beyond the limits.
StreamingConfigs ==
  [host : {"", "localhost"},
   port : {0, 3333, 65535, 65536},
   max_fps : {0, 30, 120, 121}]

\* TUIOStreamingConfig::validate: getValidationErrors is empty.
validate(config) ==
  /\ config.host # ""
  /\ ~(config.port < 1 \/ config.port > 65535)
  /\ ~(config.max_fps < 1 \/ config.max_fps > 120)

\* The keys and values passed to updateParameter.
ParameterKeys == {"host", "port", "max_fps", "max_frames"}

ParameterValues == {"", "localhost", "0", "30", "121", "3333", "65536", "30fps", "fast"}

\* std::stoi: the number the leading digits spell; without leading digits it
\* throws std::invalid_argument.
stoi(value) ==
  CASE value = "0" -> [threw |-> FALSE, number |-> 0]
    [] value = "30" -> [threw |-> FALSE, number |-> 30]
    [] value = "30fps" -> [threw |-> FALSE, number |-> 30]
    [] value = "121" -> [threw |-> FALSE, number |-> 121]
    [] value = "3333" -> [threw |-> FALSE, number |-> 3333]
    [] value = "65536" -> [threw |-> FALSE, number |-> 65536]
    [] OTHER -> [threw |-> TRUE, number |-> 0]

\* TUIOConfigManager::parseJsonValue: the configuration it leaves and what
\* it returns, or that it threw.
parseJsonValue(config, key, value) ==
  LET assigned ==
        CASE key = "host" -> [config EXCEPT !.host = value]
          [] key = "port" -> [config EXCEPT !.port = stoi(value).number]
          [] key = "max_fps" -> [config EXCEPT !.max_fps = stoi(value).number]
          [] OTHER -> config
  IN  IF key \notin {"host", "port", "max_fps"}
        THEN [config |-> config, ret |-> "false"]
        ELSE IF key # "host" /\ stoi(value).threw
               THEN [config |-> config, ret |-> "threw"]
               ELSE [config |-> assigned,
                     ret |-> IF validate(assigned) THEN "true" ELSE "false"]

\* TUIOConfigManager::setConfig
setConfig(config) ==
  /\ config_' = IF validate(config) THEN config ELSE config_
  /\ config_call' = [op |-> "setConfig",
                     ret |-> IF validate(config) THEN "true" ELSE "false",
                     before |-> config_]
  /\ UNCHANGED <<decVars, detVars, callVars, ipVars, camVars, bridgeVars>>

\* TUIOConfigManager::updateParameter
updateParameter(key, value) ==
  /\ config_' = parseJsonValue(config_, key, value).config
  /\ config_call' = [op |-> "updateParameter",
                     ret |-> parseJsonValue(config_, key, value).ret,
                     before |-> config_]
  /\ UNCHANGED <<decVars, detVars, callVars, ipVars, camVars, bridgeVars>>

\* What the regular expressions of fromJson find in a file: for each key
\* nothing, or a value; a host is found non-empty, a number as digits.
ConfigFiles ==
  [opens : BOOLEAN,
   host : {<<>>, <<"localhost">>},
   port : {<<>>, <<0>>, <<3333>>, <<65536>>},
   max_fps : {<<>>, <<0>>, <<30>>, <<121>>}]

\* TUIOStreamingConfig::fromJson on a default-constructed configuration.
fromJson(file) ==
  [host |-> IF file.host = <<>> THEN DefaultStreamingConfig.host ELSE file.host[1],
   port |-> IF file.port = <<>> THEN DefaultStreamingConfig.port ELSE file.port[1],
   max_fps |-> IF file.max_fps = <<>> THEN DefaultStreamingConfig.max_fps
                                     ELSE file.max_fps[1]]

\* TUIOConfigManager::loadFromFile
loadFromFile(file) ==
  LET loaded == file.opens /\ validate(fromJson(file))
  IN  /\ config_' = IF loaded THEN fromJson(file) ELSE config_
      /\ config_call' = [op |-> "loadFromFile",
                         ret |-> IF loaded THEN "true" ELSE "false",
                         before |-> config_]
      /\ UNCHANGED <<decVars, detVars, callVars, ipVars, camVars, bridgeVars>>

TuioConfigNext ==
  \/ \E config \in StreamingConfigs : setConfig(config)
  \/ \E key \in ParameterKeys, value \in ParameterValues : updateParameter(key, value)
  \/ \E file \in ConfigFiles : loadFromFile(file)

(***************************************************************************)
(* Specifications.                                                         *)
(***************************************************************************)
Init == DecOff /\ DetInit /\ CallInit /\ IpInit /\ CamInit /\ TuioInit

\* The detector: frames are detected, the detection parameters are set
\* between calls.
Next ==
  \/ DetectFrame
  \/ DetectProcessedFrame
  \/ ProcessNextContour
  \/ FinishDetect
  \/ Return
  \/ \E a \in DetectionParamChoices : setDetectionParams(a[1], a[2], a[3])

Spec == Init /\ [][Next]_vars

\* The configuration: the four setters and processFrame.
\* The frames of the debug-mode runs: one marker, still or moved, the blank
\* square, or two markers.
MaxDebugFrames == 2

DebugFrames ==
  {[empty |-> FALSE, shapes |-> s, stage |-> "input"] :
     s \in {<<"marker">>, <<"marker5">>, <<"marker30">>, <<"marker40">>,
            <<"blank">>, <<"marker", "second">>, <<"turned">>}}

DebugDetectFrame ==
  \E frame \in DebugFrames \cup {EmptyRaster} :
    /\ total_frames_processed_ < MaxDebugFrames
    /\ detectMarkers(frame)

DebugDetectProcessedFrame ==
  \E frame \in DebugFrames :
    /\ total_frames_processed_ < MaxDebugFrames
    /\ detectMarkersProcessed(frame, EdgeMap(frame))

callSetDebugMode == \E enable \in BOOLEAN : setDebugMode(enable)

DebugNext ==
  \/ DebugDetectFrame
  \/ DebugDetectProcessedFrame
  \/ ProcessNextContour
  \/ FinishDetect
  \/ Return
  \/ callSetDebugMode

SpecDebug == Init /\ [][DebugNext]_vars

SpecCamera == Init /\ [][CameraNext]_vars

SpecBridge == Init /\ [][BridgeNext]_vars

SpecTuioConfig == Init /\ [][TuioConfigNext]_vars

ExtractNext ==
  \/ callFindMarkerContours
  \/ \E a \in ContourFilterChoices : callSetContourFilterParams(a[1], a[2], a[3])

SpecExtract == Init /\ [][ExtractNext]_vars

ConfigNext ==
  \/ \E a \in DetectionParamChoices : setDetectionParams(a[1], a[2], a[3])
  \/ \E a \in PreprocessingChoices : callSetPreprocessingParams(a[1], a[2], a[3])
  \/ \E a \in EdgeDetectionChoices : callSetEdgeDetectionParams(a[1], a[2])
  \/ \E a \in ContourFilterChoices : callSetContourFilterParams(a[1], a[2], a[3])
  \/ callProcessFrame

SpecConfig == Init /\ [][ConfigNext]_vars

(***************************************************************************)
(* Properties of the decoder, checked under SpecDecode.                    *)
(***************************************************************************)
\* The generated patch is canonical: black and white, a uniform border ring,
\* the top-left inner corner cell the only white one, the 12 other cells
\* carrying genId.
CanonicalGenerated ==
  /\ genCorners = {<<1, 1>>}
  /\ patch.on \in {0, 255}
  /\ patch.ring \in {0, 255}

\* C1: round trip.  The canonical patch of every identifier k decodes
\* successfully to id k with a confidence of at least the minimum confidence.
C1_RoundTrip ==
  (dpc = "decoded" /\ CanonicalGenerated)
    => /\ result.ok
       /\ result.id = genId
       /\ result.confidence >= min_confidence_

\* C2: rotation invariance.  When a canonical patch decodes successfully, the
\* patch turned by 90, 180 or 270 degrees decodes successfully to the same
\* identifier.
C2_RotationInvariance ==
  (dpc = "compared" /\ xform[1] = "rotate" /\ CanonicalGenerated /\ baseResult.ok)
    => /\ result.ok
       /\ result.id = baseResult.id

\* C3: polarity invariance.  A canonical patch and its inverted copy either
\* both fail to decode, or both decode to the same identifier and confidence.
C3_PolarityInvariance ==
  (dpc = "compared" /\ xform[1] = "invert" /\ CanonicalGenerated)
    => /\ result.ok = baseResult.ok
       /\ result.ok => (result.id = baseResult.id
                        /\ result.confidence = baseResult.confidence)

\* C4: ambiguous orientation is rejected.  A patch with none or two of the
\* inner corner cells (1,1), (1,4), (4,1), (4,4) white decodes to no marker,
\* whatever its data cells hold.
C4_AmbiguousOrientationRejected ==
  (dpc = "decoded" /\ Cardinality(genCorners) \in {0, 2}
     /\ patch.on = 255 /\ patch.ring \in {0, 255})
    => ~result.ok

(***************************************************************************)
(* Properties of detectMarkers, checked under Spec.                        *)
(***************************************************************************)
Range(s) == {s[k] : k \in 1..Len(s)}

IsDetect == call.op \in {"detectMarkers", "detectMarkersProcessed"}

\* The call was given an empty frame.
EmptyFrameGiven ==
  /\ IsDetect
  /\ \E k \in 1..Len(call.args) : call.args[k].empty

\* The boundaries of the raster the candidates of the call are extracted from.
ShownBoundaries ==
  IF IsDetect THEN Range(call.args[Len(call.args)].shapes) ELSE {}

\* The call's outcome for a candidate.
OutcomeOf(name) == processContour(name, min_marker_size_, max_marker_size_)

AcceptedContours ==
  SelectSeq(contours, LAMBDA name : Accepted(OutcomeOf(name), min_confidence_))

\* C5: after a detect call that returns success, every returned marker has an
\* id in 0..4095, a confidence between the minimum confidence and 1.0 and
\* exactly four corners, and no candidate whose decode yields an id outside
\* 0..4095 is among them.
C5_ReturnedMarkersValid ==
  (pc = "done" /\ ret)
    => /\ \A k \in 1..Len(markers) :
            /\ markers[k].id \in 0..(IdLimit - 1)
            /\ min_confidence_ <= markers[k].confidence
            /\ markers[k].confidence <= 10
            /\ Len(markers[k].corners) = 4
       /\ \A name \in Range(contours) :
            DecodedPatch[name].id \notin 0..(IdLimit - 1)
              => \A k \in 1..Len(markers) :
                   markers[k].corners # Boundaries[name].approx5

\* A successful call returned a marker from a frame that also held a
\* candidate whose decode yields the id -1.
C5_Witness ==
  /\ pc = "done"
  /\ ret
  /\ Len(markers) >= 1
  /\ \E name \in Range(contours) : DecodedPatch[name].id = -1

\* C6: a boundary whose polygon approximation does not have exactly four
\* vertices never becomes a candidate, and no boundary failing a four-vertex
\* check (ImageProcessor's or processContour's) yields a returned marker.
C6_NonSquaresRejected ==
  (pc \in {"loop", "done"})
    => \A name \in ShownBoundaries :
         /\ Len(Boundaries[name].approx2) # 4 => name \notin Range(contours)
         /\ (Len(Boundaries[name].approx2) # 4 \/ Len(Boundaries[name].approx5) # 4)
              => \A k \in 1..Len(markers) :
                   markers[k].corners # Boundaries[name].approx5

\* A successful call on a frame showing a boundary of more than four
\* vertices beside a square, of which only the square is returned.
C6_Witness ==
  /\ pc = "done"
  /\ ret
  /\ \E name \in ShownBoundaries : Len(Boundaries[name].approx2) > 4
  /\ Len(contours) = 1
  /\ Len(markers) = 1

\* C7: a detect call given an empty frame hands the caller an empty marker
\* list, whatever the list held before the call, in both overloads.
C7_EmptyFrameEmptiesList ==
  (pc = "done" /\ EmptyFrameGiven) => markers = <<>>

\* The call found no candidate, or accepted none of its candidates.
NothingAccepted == AcceptedContours = <<>>

\* C8: a detect call on a non-empty frame with no candidate or no accepted
\* marker returns success with an empty list, total_frames_processed_ one
\* higher than at entry and total_markers_detected_ as at entry.
C8_NoMarkersIsSuccess ==
  (pc = "done" /\ IsDetect /\ ~EmptyFrameGiven /\ NothingAccepted)
    => /\ ret
       /\ markers = <<>>
       /\ total_frames_processed_ = entry.frames + 1
       /\ total_markers_detected_ = entry.detected

\* A call on a non-empty frame, entered with a marker in the caller's list,
\* ended with none of its candidates accepted, one of them decoding validly
\* below the minimum confidence.
C8_Witness ==
  /\ pc = "done"
  /\ IsDetect
  /\ ~EmptyFrameGiven
  /\ NothingAccepted
  /\ \E name \in Range(contours) : OutcomeOf(name).ok
  /\ entry.markers # <<>>

\* C9: within a detect call every extracted candidate is attempted exactly
\* once, in extraction order, whatever became of the earlier ones, and the
\* returned markers are those of the accepted candidates, in that order.
C9_EveryCandidateAttempted ==
  /\ (pc \in {"loop", "done"})
       => attempts = [k \in 1..Len(attempts) |-> k - 1]
  /\ (pc = "done" /\ ret)
       => /\ Len(attempts) = Len(contours)
          /\ markers = [k \in 1..Len(AcceptedContours) |->
                          OutcomeOf(AcceptedContours[k]).marker]

\* A call whose first candidate raised returned the valid last one.
C9_Witness ==
  /\ pc = "done"
  /\ ret
  /\ Len(contours) >= 2
  /\ Boundaries[contours[1]].throws
  /\ ~OutcomeOf(contours[1]).ok
  /\ Len(markers) = 1
  /\ markers[1] = OutcomeOf(contours[Len(contours)]).marker

\* C11: the patch decoded for each candidate is cut from the preprocessed
\* grayscale raster of the current frame, never from the edge map and never
\* from the raw frame passed to detect.
C11_PatchFromPreprocessed ==
  \A k \in 1..Len(sampled) : sampled[k] = preprocessFrame(call.args[1]).stage

\* C12: every detect call, successful or not, raises total_frames_processed_
\* by exactly one, and total_detection_attempts_ by exactly one for every
\* candidate attempted.
C12_CountersUnconditional ==
  (pc = "done" /\ IsDetect)
    => /\ total_frames_processed_ = entry.frames + 1
       /\ total_detection_attempts_ = entry.attempts + Len(attempts)

\* The candidates of an edge map: of its first 1000 boundaries, those that
\* pass the filter with the parameters of the call, in the order found.
CandidatesOf(map, filter) ==
  LET self == setContourFilterParams(ImageProcessorNew, filter[1], filter[2], filter[3])
  IN  SelectSeq([k \in 1..(IF Len(map.shapes) < 1000 THEN Len(map.shapes) ELSE 1000)
                   |-> map.shapes[k]],
                LAMBDA name : filterContour(self, name))

C16_Candidates ==
  ~extraction.map.empty
    => /\ extraction.contours = CandidatesOf(extraction.map, extraction.filter)
       /\ extraction.ok = (extraction.contours # <<>>)

C16_Rerun ==
  (/\ ~extraction'.map.empty
   /\ extraction'.map = extraction.map
   /\ extraction'.filter = extraction.filter)
    => (extraction'.ok = extraction.ok /\ extraction'.contours = extraction.contours)

C17_OneCaptureLoop ==
  /\ Cardinality(RunningLoops) <= 1
  /\ Cardinality({t \in 1..Len(loops) : loops[t] = "callback"}) <= 1

\* decodeBinaryPattern has run on the patch and found one white corner.
OrientationResolved ==
  /\ dpc \in {"decoded", "compared"}
  /\ result.confidence > 0      \* the border check passed
  /\ Cardinality(WhitePatternCorners(NormalizePolarity(patch))) = 1

TheWhiteCorner == CHOOSE q \in WhitePatternCorners(NormalizePolarity(patch)) : TRUE

\* The white corner is read at the top-left cell of the rotated pattern.
BeaconReadTopLeft ==
  RotatedPatternAt(NormalizePolarity(patch), RotationOf(TheWhiteCorner), 0, 0)

C19_FailsOnlyOnEmptyInput == ~processed.input_frame.empty => processed.ok

\* The configuration as C20 states it must be for the check to accept it.
StatedValid(self) ==
  /\ self.blur_kernel_size_ >= 1 /\ self.blur_kernel_size_ % 2 = 1
  /\ self.contrast_alpha_ > 0
  /\ self.canny_low_threshold_ >= 0
  /\ self.canny_high_threshold_ > self.canny_low_threshold_
  /\ self.min_contour_area_ < self.max_contour_area_
  /\ self.min_contour_perimeter_ >= 0

\* C20: the parameter check run by processFrame accepts a configuration
\* exactly when blur is odd and at least 1, contrast is positive,
\* 0 <= low < high, min area < max area and min perimeter >= 0; an even blur
\* kernel, 0 included, is rejected.
C20_ValidityCheck ==
  ~processed.input_frame.empty => (processed.ok <=> StatedValid(processed.self))

\* decodeMarker has run on the patch.
PatchDecoded == dpc \in {"decoded", "compared"}

\* decodeMarker returned at the border check: confidence is still the 0 the
\* caller gave it.
BorderRejected == ~result.ok /\ result.confidence = 0

\* The four outermost lines of the binary patch, 480 samples.
RingSamples ==
  {<<0, k>> : k \in 0..119} \cup {<<119, k>> : k \in 0..119}

RingSampleColumns ==
  {<<k, 0>> : k \in 0..119} \cup {<<k, 119>> : k \in 0..119}

WhiteAt(b, q) == BinaryAt(b, q[1], q[2]) >= 127

\* The border colour is white when at least two of the four samples are.
InferredWhite(b) ==
  Cardinality({q \in {<<0, 0>>, <<0, 60>>, <<60, 0>>, <<119, 119>>} : WhiteAt(b, q)}) >= 2

Disagreeing ==
  LET b == NormalizePolarity(patch)
      white == InferredWhite(b)
  IN  Cardinality({q \in RingSamples : WhiteAt(b, q) # white})
        + Cardinality({q \in RingSampleColumns : WhiteAt(b, q) # white})

C21_WitnessAtTolerance ==
  /\ PatchDecoded /\ patch.rows = 120 /\ patch.cols = 120
  /\ Disagreeing = 288
  /\ ~BorderRejected

\* C22: decoding a patch that is empty or smaller than 120 x 120 gives no
\* marker and reads no pixel outside the patch.
C22_SizeCheckBeforeSamples ==
  (PatchDecoded /\ (patch.rows < 120 \/ patch.cols < 120))
    => /\ ~result.ok
       /\ \A q \in PolarityProbes : q[1] < patch.rows /\ q[2] < patch.cols

\* C23: previous_marker_locations_ holds the centers of the markers of
\* the last frame that returned at least one marker: a frame that returns
\* markers stores their centers, a frame that returns none leaves the list
\* as it was.
C23_PreviousFromLastOutput ==
  (pc = "done" /\ IsDetect)
    => previous_marker_locations_ =
         IF ret /\ Len(markers) > 0
           THEN [k \in 1..Len(markers) |-> markers[k].center]
           ELSE entry.previous

\* The candidates of the call that processContour decoded.
DecodedContours == SelectSeq(contours, LAMBDA name : OutcomeOf(name).ok)

\* C24: every successful decode has confidence 1.0 (10 tenths), so with a
\* minimum confidence of at most 1.0 every decoded candidate is returned.
C24_ConfidenceConstant ==
  (pc = "done" /\ ret)
    => /\ \A name \in Range(contours) :
            OutcomeOf(name).ok => OutcomeOf(name).marker.confidence = 10
       /\ min_confidence_ <= 10
            => markers = [k \in 1..Len(DecodedContours) |->
                            OutcomeOf(DecodedContours[k]).marker]

\* With the minimum confidence at 1.0 itself a decoded candidate was
\* returned.
C24_Witness ==
  /\ pc = "done" /\ ret
  /\ min_confidence_ = 10
  /\ Len(DecodedContours) > 0
  /\ Len(markers) = Len(DecodedContours)

\* The states of one marker follow the lifecycle: DETECTED first and after
\* LOST only, UPDATED and LOST after DETECTED or UPDATED only.
LifecycleOrdered(history) ==
  \A k \in 1..Len(history) :
    IF history[k] = "DETECTED"
      THEN k = 1 \/ history[k - 1] = "LOST"
      ELSE k > 1 /\ history[k - 1] \in {"DETECTED", "UPDATED"}

\* The marker ids of the last updateMarkers call and of the one before.
CurrentIds == bridge_call[Len(bridge_call)]

PreviousIds == bridge_call[Len(bridge_call) - 1]

EventsOf(marker_id, state) ==
  {k \in 1..Len(events) : events[k].id = marker_id /\ events[k].state = state}

\* C25: on a running bridge the transitions of every marker id come in the
\* order DETECTED, any number of UPDATED, LOST, and again DETECTED when the
\* id reappears; LOST comes in the first call the id is absent from.
C25_ObjectLifecycle ==
  /\ \A marker_id \in DOMAIN marker_history_ :
       LifecycleOrdered(marker_history_[marker_id])
  /\ Len(bridge_call) >= 2 =>
       \A marker_id \in PreviousIds \ CurrentIds :
         validateMapping(marker_id) => EventsOf(marker_id, "LOST") # {}

\* C29: an UPDATED transition of a marker that was in the call before is
\* made under the session id, and on the object, of its detection; after a
\* call active_objects_ holds one object, and no null pointer, for each of
\* its valid markers.
C29_UpdatesReachDetectedObject ==
  /\ Len(bridge_call) >= 2 =>
       \A k \in 1..Len(events) :
         events[k].state = "UPDATED" /\ events[k].id \in PreviousIds =>
           /\ events[k].session_id = first_detection[events[k].id].session_id
           /\ events[k].obj = first_detection[events[k].id].obj
  /\ Len(bridge_call) >= 1 =>
       \A marker_id \in CurrentIds :
         validateMapping(marker_id) =>
           Cardinality({session_id \in DOMAIN active_objects_ :
                          /\ active_objects_[session_id] # nullptr
                          /\ active_objects_[session_id].symbol = marker_id}) = 1

\* C26: after every setConfig, updateParameter and loadFromFile the current
\* configuration is valid, and a call that returned false left it as it was.
C26_ConfigStaysValid ==
  /\ validate(config_)
  /\ config_call.ret = "false" => config_ = config_call.before

\* A step in which a captureLoop thread invokes the frame callback.
CallbackInvoked ==
  \E t \in 1..Len(loops) : loops[t] # "callback" /\ loops'[t] = "callback"

\* A step of a captureLoop thread.
LoopStep == \E t \in 1..Len(loops) : loops'[t] # loops[t]

\* C28: once stopCapture has returned, and until capture is started again,
\* the frame callback is not invoked; once the CameraManager is destroyed no
\* captureLoop thread takes a step.
C28_QuietAfterStop ==
  [][/\ lifetime \in {"stopped", "destroyed"} => ~CallbackInvoked
     /\ lifetime = "destroyed" => ~LoopStep]_vars

\* The polarity probe at the corner the pattern corner q names.
ProbeOf(q) ==
  <<IF q[1] = 0 THEN PolarityNear ELSE PolarityFar,
    IF q[2] = 0 THEN PolarityNear ELSE PolarityFar>>

\* C27: when exactly one of the four polarity probes is white and the border
\* is accepted, exactly one pattern corner reads white, it is the corner of
\* the white probe, and the pattern decodes to an identifier.
C27_PolarityAndOrientationAgree ==
  (/\ dpc \in {"decoded", "compared"}
   /\ result.confidence > 0
   /\ white_corners(patch) = 1)
    => LET b == NormalizePolarity(patch)
           white == WhitePatternCorners(b)
       IN  /\ Cardinality(white) = 1
           /\ \A q \in white : BinaryAt(b, ProbeOf(q)[1], ProbeOf(q)[2]) > WhiteCutoff
           /\ result.id >= 0

\* C30: a returned marker has the vertices of its candidate's polygon as
\* corners, in the polygon's order, and the direction from the first to the
\* second of them as both angle and deskew_angle; of its fields only the id
\* depends on the rotation the beacon resolves.
C30_RotationSetsOnlyId ==
  (pc = "done" /\ ret /\ Len(markers) = Len(DecodedContours))
    => \A k \in 1..Len(markers) :
         LET approx == Boundaries[DecodedContours[k]].approx5
         IN  /\ markers[k].corners = approx
             /\ markers[k].angle = Direction(approx[1], approx[2])
             /\ markers[k].deskew_angle = markers[k].angle
             /\ markers[k].center[1] * 4
                  = approx[1][1] + approx[2][1] + approx[3][1] + approx[4][1]
             /\ markers[k].center[2] * 4
                  = approx[1][2] + approx[2][2] + approx[3][2] + approx[4][2]
             /\ markers[k].confidence = ConfCap

\* A marker whose beacon resolves a quarter turn was returned.
C30_Witness ==
  /\ pc = "done" /\ ret
  /\ Len(markers) = Len(DecodedContours)
  /\ \E k \in 1..Len(markers) :
       /\ DecodedContours[k] = "turned"
       /\ BeaconRotationOf("turned") = 1
       /\ markers[k].id >= 0

\* The debug set of the frame was saved by the call that has just finished.
SnapshotEmitted == pc = "done" /\ "debug_frame" \in written

\* Some marker of the same index is more than 30 pixels from where it was.
MovedSince(centers) ==
  \E k \in 1..Len(markers) :
    /\ k <= Len(centers)
    /\ (markers[k].center[1] - centers[k][1]) * (markers[k].center[1] - centers[k][1])
       + (markers[k].center[2] - centers[k][2]) * (markers[k].center[2] - centers[k][2])
         > 30 * 30

\* C13: with debug mode on, a debug set is saved for a frame only when no set
\* was saved before, or the number of markers differs from that of the
\* previous frame, or some index-matched marker is more than 30 pixels from
\* its place in the last saved set.
C13_SnapshotOnlyOnChange ==
  SnapshotEmitted
    => \/ ~entry.snapshot.any
       \/ Len(markers) # Len(entry.previous)
       \/ MovedSince(entry.snapshot.centers)

C14_WitnessMoved ==
  /\ pc = "done" /\ ret /\ debug_mode_
  /\ call.args[1].shapes = <<"marker40">>
  /\ Len(markers) = 1
  /\ entry.previous = << <<150, 150>> >>
  /\ SnapshotEmitted

\* C15: while debug mode is off no detect call writes a debug file, whatever
\* frames and setDebugMode calls came before.
C15_NoFilesWhenDebugOff == ~debug_mode_ => written = {}

\* Debug mode was on, a set was saved, it was turned off, and a later frame
\* with a decoded candidate wrote nothing.
C15_Witness ==
  /\ pc = "done" /\ ret /\ ~debug_mode_
  /\ entry.snapshot.any
  /\ Len(markers) > 0
  /\ written = {}

(***************************************************************************)
(* Properties of the setters, checked under SpecConfig.                    *)
(***************************************************************************)
\* The contracts of the setters' values.
PreprocessingContract(a) == a[1] >= 1 /\ a[1] % 2 = 1 /\ a[2] > 0

EdgeDetectionContract(a) == a[1] >= 0 /\ a[2] >= 0 /\ a[1] < a[2]

ContourFilterContract(a) == a[1] < a[2] /\ a[3] >= 0

DetectionContract(a) == a[3] >= 0 /\ a[3] <= 10

\* C10: a setter given out-of-contract values leaves the stored
\* configuration as it was.
C10_SettersRejectInvalid ==
  [][/\ \A a \in PreprocessingChoices :
          (callSetPreprocessingParams(a[1], a[2], a[3]) /\ ~PreprocessingContract(a))
            => ip' = ip
     /\ \A a \in EdgeDetectionChoices :
          (callSetEdgeDetectionParams(a[1], a[2]) /\ ~EdgeDetectionContract(a))
            => ip' = ip
     /\ \A a \in ContourFilterChoices :
          (callSetContourFilterParams(a[1], a[2], a[3]) /\ ~ContourFilterContract(a))
            => ip' = ip
     /\ \A a \in DetectionParamChoices :
          (setDetectionParams(a[1], a[2], a[3]) /\ ~DetectionContract(a))
            => paramVars' = paramVars]_vars

====
